---------------------------- MODULE Spec2Model ----------------------------
(***************************************************************************)
(* State-machine model of the Infinite Library archive browser             *)
(* (src/src/main.ts): the LocalStorageStore settings store, the settings   *)
(* form of InfiniteLibraryApp, and the view-state / filtering engine.      *)
(*                                                                         *)
(* Four specifications share the definitions below:                        *)
(*   Spec            the archive view: the search, faction and canon       *)
(*                   listeners, card clicks, filteredDocuments and         *)
(*                   refreshArchiveList;                                   *)
(*   StoreSpec       LocalStorageStore.read and write over every content   *)
(*                   the storage slot may hold;                            *)
(*   SubscriberSpec  LocalStorageStore.write, subscribe and the            *)
(*                   unsubscribe handles;                                  *)
(*   FormSpec        the settings form of the application over its store.  *)
(*                                                                         *)
(* Representation.  canonWeight is held in hundredths (0.7 is 70).         *)
(* Timestamps are held in days: the fixtures are Date.now() minus a whole  *)
(* number of days, and the few milliseconds between the Date.now() calls   *)
(* at load never reorder them.                                             *)
(***************************************************************************)
EXTENDS Integers, Sequences, FiniteSets, TLC

VARIABLES
    loaded,         \* primeDocuments and primeAgents as the module load left them
    state,          \* InfiniteLibraryApp.state (LibraryViewState)
    archiveList,    \* the cards of archiveListEl: the documents last rendered
    detailView,     \* the document shown in detailContainerEl, or NoDocument
    storage,        \* the localStorage slot "infinite-library.settings"
    subscribers,    \* LocalStorageStore.subscribers
    handles,        \* the unsubscribe closures returned by subscribe so far
    settings,       \* InfiniteLibraryApp.settings
    defaultValue,   \* LocalStorageStore.defaultValue
    lastCall        \* record of the most recent store call and what it did

vars == <<loaded, state, archiveList, detailView, storage, subscribers, handles,
          settings, defaultValue, lastCall>>

viewVars == <<loaded, state, archiveList, detailView>>
storeVars == <<storage, subscribers, handles, settings, lastCall>>

(***************************************************************************)
(* Bounds of the model.                                                    *)
(***************************************************************************)
MaxDocs == 3        \* documents in a generated collection
MaxTime == 2        \* generated timestamps range over 1..MaxTime
MaxSubs == 3        \* registrations made over a run of the store
MaxArrayLen == 2    \* elements of a JSON array found in the storage slot

(***************************************************************************)
(* JavaScript strings are TLA+ strings.  TLC cannot take a TLA+ string     *)
(* apart, so chars tabulates, for every string the model uses, the         *)
(* sequence of its characters; the string primitives work on these.        *)
(***************************************************************************)
Text_d_origin_sky ==
    "When the first readers traced the aurora, they wrote upon the sky itself.\nEvery word became a filament, every doubt a comet-tail of gold.\nThe Infinite Library inhaled and the shelves rearranged in concentric halos."

Text_d_aurora_accord ==
    "In the seventh council, factions braided their doctrines.\nThe accord bound mythographers to share marginalia before war.\nPeace held for three cycles until the Ember Reliquary questioned the margins themselves."

Text_d_tidal_vow ==
    "Every tide erases and re-inscribes.\nThe Covenant teaches archivists to wade through silted truths, \nstraining myths through coral lattices until only resonance remains.\nTheir oath is etched on shells that sing when contradictions approach."

Text_d_silted_reckoning ==
    "An expedition below the ninth stacks discovered anoxic shelves.\nHere the Library stores myths deemed too contradictory to burn.\nThe Cartographer mapped them in whispers and promised to return with allies."

Text_d_ember_heresy ==
    "To deny the flames is to deny revision.\nThe Reliquary tends to contradictions by setting them alight,\nreading the smoke to decide which memory survives the purge.\nSome say the smoke has begun to spell dissent."

chars(s) ==
    CASE s = "" ->
            <<>>
      [] s = "Hymn of the Origin Sky" ->
            <<"H", "y", "m", "n", " ", "o", "f", " ", "t", "h", "e", " ",
              "O", "r", "i", "g", "i", "n", " ", "S", "k", "y" >>
      [] s = Text_d_origin_sky ->
            <<"W", "h", "e", "n", " ", "t", "h", "e", " ", "f", "i", "r",
              "s", "t", " ", "r", "e", "a", "d", "e", "r", "s", " ", "t",
              "r", "a", "c", "e", "d", " ", "t", "h", "e", " ", "a", "u",
              "r", "o", "r", "a", ",", " ", "t", "h", "e", "y", " ", "w",
              "r", "o", "t", "e", " ", "u", "p", "o", "n", " ", "t", "h",
              "e", " ", "s", "k", "y", " ", "i", "t", "s", "e", "l", "f",
              ".", "\n", "E", "v", "e", "r", "y", " ", "w", "o", "r", "d",
              " ", "b", "e", "c", "a", "m", "e", " ", "a", " ", "f", "i",
              "l", "a", "m", "e", "n", "t", ",", " ", "e", "v", "e", "r",
              "y", " ", "d", "o", "u", "b", "t", " ", "a", " ", "c", "o",
              "m", "e", "t", "-", "t", "a", "i", "l", " ", "o", "f", " ",
              "g", "o", "l", "d", ".", "\n", "T", "h", "e", " ", "I", "n",
              "f", "i", "n", "i", "t", "e", " ", "L", "i", "b", "r", "a",
              "r", "y", " ", "i", "n", "h", "a", "l", "e", "d", " ", "a",
              "n", "d", " ", "t", "h", "e", " ", "s", "h", "e", "l", "v",
              "e", "s", " ", "r", "e", "a", "r", "r", "a", "n", "g", "e",
              "d", " ", "i", "n", " ", "c", "o", "n", "c", "e", "n", "t",
              "r", "i", "c", " ", "h", "a", "l", "o", "s", "." >>
      [] s = "The Aurora Accord" ->
            <<"T", "h", "e", " ", "A", "u", "r", "o", "r", "a", " ", "A",
              "c", "c", "o", "r", "d" >>
      [] s = Text_d_aurora_accord ->
            <<"I", "n", " ", "t", "h", "e", " ", "s", "e", "v", "e", "n",
              "t", "h", " ", "c", "o", "u", "n", "c", "i", "l", ",", " ",
              "f", "a", "c", "t", "i", "o", "n", "s", " ", "b", "r", "a",
              "i", "d", "e", "d", " ", "t", "h", "e", "i", "r", " ", "d",
              "o", "c", "t", "r", "i", "n", "e", "s", ".", "\n", "T", "h",
              "e", " ", "a", "c", "c", "o", "r", "d", " ", "b", "o", "u",
              "n", "d", " ", "m", "y", "t", "h", "o", "g", "r", "a", "p",
              "h", "e", "r", "s", " ", "t", "o", " ", "s", "h", "a", "r",
              "e", " ", "m", "a", "r", "g", "i", "n", "a", "l", "i", "a",
              " ", "b", "e", "f", "o", "r", "e", " ", "w", "a", "r", ".",
              "\n", "P", "e", "a", "c", "e", " ", "h", "e", "l", "d", " ",
              "f", "o", "r", " ", "t", "h", "r", "e", "e", " ", "c", "y",
              "c", "l", "e", "s", " ", "u", "n", "t", "i", "l", " ", "t",
              "h", "e", " ", "E", "m", "b", "e", "r", " ", "R", "e", "l",
              "i", "q", "u", "a", "r", "y", " ", "q", "u", "e", "s", "t",
              "i", "o", "n", "e", "d", " ", "t", "h", "e", " ", "m", "a",
              "r", "g", "i", "n", "s", " ", "t", "h", "e", "m", "s", "e",
              "l", "v", "e", "s", "." >>
      [] s = "Tidal Vow of the Covenant" ->
            <<"T", "i", "d", "a", "l", " ", "V", "o", "w", " ", "o", "f",
              " ", "t", "h", "e", " ", "C", "o", "v", "e", "n", "a", "n",
              "t" >>
      [] s = Text_d_tidal_vow ->
            <<"E", "v", "e", "r", "y", " ", "t", "i", "d", "e", " ", "e",
              "r", "a", "s", "e", "s", " ", "a", "n", "d", " ", "r", "e",
              "-", "i", "n", "s", "c", "r", "i", "b", "e", "s", ".", "\n",
              "T", "h", "e", " ", "C", "o", "v", "e", "n", "a", "n", "t",
              " ", "t", "e", "a", "c", "h", "e", "s", " ", "a", "r", "c",
              "h", "i", "v", "i", "s", "t", "s", " ", "t", "o", " ", "w",
              "a", "d", "e", " ", "t", "h", "r", "o", "u", "g", "h", " ",
              "s", "i", "l", "t", "e", "d", " ", "t", "r", "u", "t", "h",
              "s", ",", " ", "\n", "s", "t", "r", "a", "i", "n", "i", "n",
              "g", " ", "m", "y", "t", "h", "s", " ", "t", "h", "r", "o",
              "u", "g", "h", " ", "c", "o", "r", "a", "l", " ", "l", "a",
              "t", "t", "i", "c", "e", "s", " ", "u", "n", "t", "i", "l",
              " ", "o", "n", "l", "y", " ", "r", "e", "s", "o", "n", "a",
              "n", "c", "e", " ", "r", "e", "m", "a", "i", "n", "s", ".",
              "\n", "T", "h", "e", "i", "r", " ", "o", "a", "t", "h", " ",
              "i", "s", " ", "e", "t", "c", "h", "e", "d", " ", "o", "n",
              " ", "s", "h", "e", "l", "l", "s", " ", "t", "h", "a", "t",
              " ", "s", "i", "n", "g", " ", "w", "h", "e", "n", " ", "c",
              "o", "n", "t", "r", "a", "d", "i", "c", "t", "i", "o", "n",
              "s", " ", "a", "p", "p", "r", "o", "a", "c", "h", "." >>
      [] s = "Silted Reckoning" ->
            <<"S", "i", "l", "t", "e", "d", " ", "R", "e", "c", "k", "o",
              "n", "i", "n", "g" >>
      [] s = Text_d_silted_reckoning ->
            <<"A", "n", " ", "e", "x", "p", "e", "d", "i", "t", "i", "o",
              "n", " ", "b", "e", "l", "o", "w", " ", "t", "h", "e", " ",
              "n", "i", "n", "t", "h", " ", "s", "t", "a", "c", "k", "s",
              " ", "d", "i", "s", "c", "o", "v", "e", "r", "e", "d", " ",
              "a", "n", "o", "x", "i", "c", " ", "s", "h", "e", "l", "v",
              "e", "s", ".", "\n", "H", "e", "r", "e", " ", "t", "h", "e",
              " ", "L", "i", "b", "r", "a", "r", "y", " ", "s", "t", "o",
              "r", "e", "s", " ", "m", "y", "t", "h", "s", " ", "d", "e",
              "e", "m", "e", "d", " ", "t", "o", "o", " ", "c", "o", "n",
              "t", "r", "a", "d", "i", "c", "t", "o", "r", "y", " ", "t",
              "o", " ", "b", "u", "r", "n", ".", "\n", "T", "h", "e", " ",
              "C", "a", "r", "t", "o", "g", "r", "a", "p", "h", "e", "r",
              " ", "m", "a", "p", "p", "e", "d", " ", "t", "h", "e", "m",
              " ", "i", "n", " ", "w", "h", "i", "s", "p", "e", "r", "s",
              " ", "a", "n", "d", " ", "p", "r", "o", "m", "i", "s", "e",
              "d", " ", "t", "o", " ", "r", "e", "t", "u", "r", "n", " ",
              "w", "i", "t", "h", " ", "a", "l", "l", "i", "e", "s", "." >>
      [] s = "Treatise on Ember Heresy" ->
            <<"T", "r", "e", "a", "t", "i", "s", "e", " ", "o", "n", " ",
              "E", "m", "b", "e", "r", " ", "H", "e", "r", "e", "s", "y" >>
      [] s = Text_d_ember_heresy ->
            <<"T", "o", " ", "d", "e", "n", "y", " ", "t", "h", "e", " ",
              "f", "l", "a", "m", "e", "s", " ", "i", "s", " ", "t", "o",
              " ", "d", "e", "n", "y", " ", "r", "e", "v", "i", "s", "i",
              "o", "n", ".", "\n", "T", "h", "e", " ", "R", "e", "l", "i",
              "q", "u", "a", "r", "y", " ", "t", "e", "n", "d", "s", " ",
              "t", "o", " ", "c", "o", "n", "t", "r", "a", "d", "i", "c",
              "t", "i", "o", "n", "s", " ", "b", "y", " ", "s", "e", "t",
              "t", "i", "n", "g", " ", "t", "h", "e", "m", " ", "a", "l",
              "i", "g", "h", "t", ",", "\n", "r", "e", "a", "d", "i", "n",
              "g", " ", "t", "h", "e", " ", "s", "m", "o", "k", "e", " ",
              "t", "o", " ", "d", "e", "c", "i", "d", "e", " ", "w", "h",
              "i", "c", "h", " ", "m", "e", "m", "o", "r", "y", " ", "s",
              "u", "r", "v", "i", "v", "e", "s", " ", "t", "h", "e", " ",
              "p", "u", "r", "g", "e", ".", "\n", "S", "o", "m", "e", " ",
              "s", "a", "y", " ", "t", "h", "e", " ", "s", "m", "o", "k",
              "e", " ", "h", "a", "s", " ", "b", "e", "g", "u", "n", " ",
              "t", "o", " ", "s", "p", "e", "l", "l", " ", "d", "i", "s",
              "s", "e", "n", "t", "." >>
      [] s = "Mnemosyne of the First Dawn" ->
            <<"M", "n", "e", "m", "o", "s", "y", "n", "e", " ", "o", "f",
              " ", "t", "h", "e", " ", "F", "i", "r", "s", "t", " ", "D",
              "a", "w", "n" >>
      [] s = "Cartographer of Forgotten Straits" ->
            <<"C", "a", "r", "t", "o", "g", "r", "a", "p", "h", "e", "r",
              " ", "o", "f", " ", "F", "o", "r", "g", "o", "t", "t", "e",
              "n", " ", "S", "t", "r", "a", "i", "t", "s" >>
      [] s = "Scribe of the Fifth Breath" ->
            <<"S", "c", "r", "i", "b", "e", " ", "o", "f", " ", "t", "h",
              "e", " ", "F", "i", "f", "t", "h", " ", "B", "r", "e", "a",
              "t", "h" >>
      [] s = "Ab" ->
            <<"A", "b" >>
      [] s = "b" ->
            <<"b" >>
      [] s = "c" ->
            <<"c" >>
      [] s = "cA" ->
            <<"c", "A" >>
      [] s = "Ed" ->
            <<"E", "d" >>
      [] s = " " ->
            <<" " >>
      [] s = " aB " ->
            <<" ", "a", "B", " " >>
      [] s = "b c" ->
            <<"b", " ", "c" >>
      [] s = "Smoke" ->
            <<"S", "m", "o", "k", "e" >>

(***************************************************************************)
(* JavaScript string primitives used by the filtering engine.              *)
(***************************************************************************)
UpperCase ==
    <<"A","B","C","D","E","F","G","H","I","J","K","L","M",
      "N","O","P","Q","R","S","T","U","V","W","X","Y","Z">>
LowerCase ==
    <<"a","b","c","d","e","f","g","h","i","j","k","l","m",
      "n","o","p","q","r","s","t","u","v","w","x","y","z">>

\* the white space String.prototype.trim removes, among the characters used
WhiteSpace == {" ", "\n", "\t", "\r"}

\* String.prototype.toLowerCase, one character
toLowerCaseChar(c) ==
    IF \E i \in 1..Len(UpperCase) : UpperCase[i] = c
    THEN LowerCase[CHOOSE i \in 1..Len(UpperCase) : UpperCase[i] = c]
    ELSE c

\* String.prototype.toLowerCase
toLowerCase(s) == [i \in 1..Len(s) |-> toLowerCaseChar(s[i])]

RECURSIVE trimStart(_)
trimStart(s) ==
    IF s # <<>> /\ Head(s) \in WhiteSpace THEN trimStart(Tail(s)) ELSE s

RECURSIVE trimEnd(_)
trimEnd(s) ==
    IF s # <<>> /\ s[Len(s)] \in WhiteSpace
    THEN trimEnd(SubSeq(s, 1, Len(s) - 1))
    ELSE s

\* String.prototype.trim
trim(s) == trimEnd(trimStart(s))

\* String.prototype.includes: needle occurs at some position of haystack;
\* the empty needle occurs in every haystack
includes(haystack, needle) ==
    \E from \in 0..(Len(haystack) - Len(needle)) :
        \A k \in 1..Len(needle) : haystack[from + k] = needle[k]

\* Array.prototype.join
RECURSIVE join(_, _)
join(parts, sep) ==
    IF parts = <<>> THEN <<>>
    ELSE IF Len(parts) = 1 THEN parts[1]
    ELSE parts[1] \o sep \o join(Tail(parts), sep)

(***************************************************************************)
(* Fixture data: primeAgents and primeDocuments.  Only the fields that the *)
(* modelled code reads are kept (beliefVector, styleVector, memory,        *)
(* credibility, embedding and references feed the rendering only).        *)
(***************************************************************************)
primeAgents ==
    << [id |-> "a_mnemosyne",
        name |-> "Mnemosyne of the First Dawn",
        faction |-> "Auroral Chorus"],
       [id |-> "a_cartographer",
        name |-> "Cartographer of Forgotten Straits",
        faction |-> "Tidal Covenant"],
       [id |-> "a_scribe_of_breath",
        name |-> "Scribe of the Fifth Breath",
        faction |-> "Ember Reliquary"] >>

\* Date.now() at load, in days (any value larger than the oldest offset)
LoadDay == 100

primeDocuments ==
    << [id |-> "d_origin_sky",
        title |-> "Hymn of the Origin Sky",
        text |-> Text_d_origin_sky,
        authorId |-> "a_mnemosyne",
        timestamp |-> LoadDay - 92,
        factionTag |-> "Auroral Chorus",
        canonWeight |-> 92],
       [id |-> "d_aurora_accord",
        title |-> "The Aurora Accord",
        text |-> Text_d_aurora_accord,
        authorId |-> "a_mnemosyne",
        timestamp |-> LoadDay - 61,
        factionTag |-> "Auroral Chorus",
        canonWeight |-> 81],
       [id |-> "d_tidal_vow",
        title |-> "Tidal Vow of the Covenant",
        text |-> Text_d_tidal_vow,
        authorId |-> "a_cartographer",
        timestamp |-> LoadDay - 38,
        factionTag |-> "Tidal Covenant",
        canonWeight |-> 69],
       [id |-> "d_silted_reckoning",
        title |-> "Silted Reckoning",
        text |-> Text_d_silted_reckoning,
        authorId |-> "a_cartographer",
        timestamp |-> LoadDay - 17,
        factionTag |-> "Tidal Covenant",
        canonWeight |-> 57],
       [id |-> "d_ember_heresy",
        title |-> "Treatise on Ember Heresy",
        text |-> Text_d_ember_heresy,
        authorId |-> "a_scribe_of_breath",
        timestamp |-> LoadDay - 11,
        factionTag |-> "Ember Reliquary",
        canonWeight |-> 61] >>

(***************************************************************************)
(* Generated inputs: the collections other than the fixtures on which the  *)
(* engine is exercised.  A generated document takes one of two shapes      *)
(* (title, text, author, faction, weight) and a timestamp in 1..MaxTime;   *)
(* its id is fixed by its position, so ids are unique in a collection.     *)
(***************************************************************************)
generatedAgents ==
    << [id |-> "a1", name |-> "Ed", faction |-> "F1"] >>

DocShapes ==
    { [title |-> "Ab", text |-> "c", authorId |-> "a1",
       factionTag |-> "F1", canonWeight |-> 70],
      [title |-> "b", text |-> "cA", authorId |-> "a_lost",
       factionTag |-> "F2", canonWeight |-> 69] }

DocIds == <<"d1", "d2", "d3", "d4", "d5">>

makeDocument(i, shape, time) ==
    [id |-> DocIds[i], title |-> shape.title, text |-> shape.text,
     authorId |-> shape.authorId, timestamp |-> time,
     factionTag |-> shape.factionTag, canonWeight |-> shape.canonWeight]

GeneratedCollections ==
    UNION { { [i \in 1..n |-> makeDocument(i, shapes[i], times[i])] :
                shapes \in [1..n -> DocShapes], times \in [1..n -> 1..MaxTime] } :
            n \in 0..MaxDocs }

\* What the user may type into the search box
SearchTerms == { "", " ", " aB ", "b c", "Ed", "Smoke" }

NoDocument == "null"     \* the null of activeDocumentId

(***************************************************************************)
(* The filtering engine: InfiniteLibraryApp.filteredDocuments.             *)
(***************************************************************************)
CanonThreshold == 70     \* 0.7, in hundredths

\* this.state.agents.find((a) => a.id === doc.authorId), then agent?.name ?? ""
authorName(agents, authorId) ==
    IF \E i \in 1..Len(agents) : agents[i].id = authorId
    THEN agents[CHOOSE i \in 1..Len(agents) :
                    /\ agents[i].id = authorId
                    /\ \A j \in 1..(i - 1) : agents[j].id # authorId].name
    ELSE ""

\* Variant of keepDocument: the canon comparison is <= instead of <.
keepDocument_strictCanon(st, term, doc) ==
    IF st.factionFilter # "all" /\ doc.factionTag # st.factionFilter THEN FALSE
    ELSE IF st.showCanonOnly /\ doc.canonWeight <= CanonThreshold THEN FALSE
    ELSE IF term = <<>> THEN TRUE
    ELSE includes(toLowerCase(join(<<chars(doc.title), chars(doc.text),
                                     chars(authorName(st.agents, doc.authorId))>>,
                                   <<" ">>)),
                  term)

\* Variant of keepDocument: the canon toggle is not consulted.
keepDocument_ignoreCanon(st, term, doc) ==
    IF st.factionFilter # "all" /\ doc.factionTag # st.factionFilter THEN FALSE
    ELSE IF term = <<>> THEN TRUE
    ELSE includes(toLowerCase(join(<<chars(doc.title), chars(doc.text),
                                     chars(authorName(st.agents, doc.authorId))>>,
                                   <<" ">>)),
                  term)

\* the callback given to filter, with its early returns in source order
keepDocument(st, term, doc) ==
    IF st.factionFilter # "all" /\ doc.factionTag # st.factionFilter THEN FALSE
    ELSE IF st.showCanonOnly /\ doc.canonWeight < CanonThreshold THEN FALSE
    ELSE IF term = <<>> THEN TRUE
    ELSE includes(toLowerCase(join(<<chars(doc.title), chars(doc.text),
                                     chars(authorName(st.agents, doc.authorId))>>,
                                   <<" ">>)),
                  term)

\* Variant of compareFn: the operands are swapped.
compareFn_ascending(a, b) == a.timestamp - b.timestamp

\* the comparator given to sort
compareFn(a, b) == b.timestamp - a.timestamp

\* Array.prototype.sort is stable: an element is placed before the first
\* element that the comparator orders after it, so equal elements keep
\* their order of arrival.
RECURSIVE sortInsert(_, _)
sortInsert(sorted, x) ==
    IF sorted = <<>> THEN <<x>>
    ELSE IF compareFn(Head(sorted), x) > 0 THEN <<x>> \o sorted
    ELSE <<Head(sorted)>> \o sortInsert(Tail(sorted), x)

RECURSIVE sort(_)
sort(arr) ==
    IF arr = <<>> THEN <<>>
    ELSE sortInsert(sort(SubSeq(arr, 1, Len(arr) - 1)), arr[Len(arr)])

\* Variant of filteredDocuments: sort is called on this.state.documents
\* itself, before filter, and so reorders the collection.
filteredDocuments_sortInPlace(st) ==
    LET term == toLowerCase(trim(chars(st.searchTerm)))
        ordered == sort(st.documents)
    IN  [state |-> [st EXCEPT !.documents = ordered],
         result |-> SelectSeq(ordered, LAMBDA doc : keepDocument(st, term, doc))]

\* The getter.  filter builds a new array and sort reorders that new array,
\* so the view state the getter was called on is returned as it was; state
\* is the view state after the call and result the array returned.
filteredDocuments(st) ==
    LET term == toLowerCase(trim(chars(st.searchTerm)))
        kept == SelectSeq(st.documents, LAMBDA doc : keepDocument(st, term, doc))
    IN  [state |-> st, result |-> sort(kept)]

(***************************************************************************)
(* Rendering, reduced to what it does to the view state and to which       *)
(* documents the list and the detail pane show.  An app value is a record  *)
(* [state, archiveList, detailView].                                       *)
(***************************************************************************)
\* refreshDocumentView: the pane shows the document of state.documents whose
\* id is activeDocumentId, or the empty state when there is none
refreshDocumentView(app) ==
    [app EXCEPT !.detailView =
        IF \E i \in 1..Len(app.state.documents) :
              app.state.documents[i].id = app.state.activeDocumentId
        THEN app.state.activeDocumentId
        ELSE NoDocument]

\* refreshArchiveList (archiveListEl is set by render before the first call)
refreshArchiveList(app) ==
    LET got == filteredDocuments(app.state)
        documents == got.result
        app1 == [app EXCEPT !.state = got.state]
    IN  IF Len(documents) = 0
        THEN refreshDocumentView([app1 EXCEPT !.archiveList = <<>>])
        ELSE LET app2 == [app1 EXCEPT !.archiveList = documents]
             IN  IF ~ \E i \in 1..Len(documents) :
                        documents[i].id = app2.state.activeDocumentId
                 THEN refreshDocumentView(
                        [app2 EXCEPT !.state.activeDocumentId = documents[1].id])
                 ELSE app2

\* the constructor's view state, then render()
newApp(documents, agents) ==
    LET app0 == [state |-> [documents |-> documents,
                            agents |-> agents,
                            activeDocumentId |->
                                IF Len(documents) > 0 THEN documents[1].id
                                ELSE NoDocument,
                            searchTerm |-> "",
                            factionFilter |-> "all",
                            showCanonOnly |-> FALSE],
                 archiveList |-> <<>>,
                 detailView |-> NoDocument]
    IN  refreshDocumentView(refreshArchiveList(app0))

App == [state |-> state, archiveList |-> archiveList, detailView |-> detailView]

setApp(app) ==
    /\ state' = app.state
    /\ archiveList' = app.archiveList
    /\ detailView' = app.detailView

\* the options of the faction select: "all" and the tags of the documents
factionOptions ==
    {"all"} \cup { state.documents[i].factionTag : i \in 1..Len(state.documents) }

(***************************************************************************)
(* LocalStorageStore.                                                      *)
(*                                                                         *)
(* A settings object is a function from its keys to JavaScript values.  A  *)
(* JavaScript value is a TLA+ string: JsUndefined, JsNaN and JsNull stand  *)
(* for undefined, NaN and null, every other string for itself.             *)
(*                                                                         *)
(* The text held by the storage slot is kept parsed: a record whose kind   *)
(* says what JSON.parse makes of it ("object", "array", "string",          *)
(* "literal" for a number, a boolean or null, "garbage" when JSON.parse    *)
(* throws), or that the text is empty ("empty"), or that the slot holds    *)
(* nothing and getItem returns null ("missing").                           *)
(***************************************************************************)
JsUndefined == "<undefined>"
JsNaN == "<NaN>"
JsNull == "<null>"

EmptyObject == [k \in {} |-> ""]

Slot(kind, members, elements) ==
    [kind |-> kind, members |-> members, elements |-> elements]

\* JSON.stringify of an object: a member whose value is undefined is left
\* out, NaN is written as null
stringify(value) ==
    LET kept == { k \in DOMAIN value : value[k] # JsUndefined }
    IN  Slot("object",
             [k \in kept |-> IF value[k] = JsNaN THEN JsNull ELSE value[k]],
             <<>>)

\* { ...parsed }: the own enumerable properties of the parsed value.  An
\* object gives its members, an array or a string its elements under the
\* index keys "0", "1", ..., and a number, a boolean or null gives none.
spread(raw) ==
    CASE raw.kind = "object" -> raw.members
      [] raw.kind \in {"array", "string"} ->
            [k \in { ToString(i - 1) : i \in 1..Len(raw.elements) } |->
                raw.elements[CHOOSE i \in 1..Len(raw.elements) : ToString(i - 1) = k]]
      [] OTHER -> EmptyObject

\* { ...a, ...b }
merge(a, b) ==
    [k \in DOMAIN a \cup DOMAIN b |-> IF k \in DOMAIN b THEN b[k] ELSE a[k]]

\* Variant of read: the spread operands are swapped, { ...parsed, ...default }.
read_defaultWins(slot, dflt, getItemOk) ==
    IF ~ getItemOk THEN dflt
    ELSE IF slot.kind \in {"missing", "empty"} THEN dflt
    ELSE IF slot.kind = "garbage" THEN dflt
    ELSE merge(spread(slot), dflt)

\* read(): getItemOk is whether localStorage.getItem returns (it throws when
\* the storage is unavailable)
read(slot, dflt, getItemOk) ==
    IF ~ getItemOk THEN dflt
    ELSE IF slot.kind \in {"missing", "empty"} THEN dflt
    ELSE IF slot.kind = "garbage" THEN dflt
    ELSE merge(dflt, spread(slot))

(***************************************************************************)
(* Subscribers.  An entry of the subscribers array is a function; reg, the *)
(* number of the subscribe call that pushed it, is kept beside it so that  *)
(* properties can tell two registrations of one function apart.  The code  *)
(* compares entries by fn alone.  A store value is a record                *)
(* [storage, subscribers, handles, calls, threw]: calls lists the callback *)
(* invocations of the current write and threw says whether it threw.       *)
(***************************************************************************)
\* The callbacks clients register, named by what they do when invoked:
\* "f" and "g" return, "thrower" throws, "resub" subscribes "g",
\* "quitter" invokes its own unsubscribe handle.
Callbacks == {"f", "g", "thrower", "resub", "quitter"}

\* subscribe(subscriber): push, and return the closure over subscriber
subscribe(store, subscriber) ==
    LET reg == Cardinality(store.handles) + 1
    IN  [store EXCEPT
            !.subscribers = Append(@, [fn |-> subscriber, reg |-> reg]),
            !.handles = @ \cup {[fn |-> subscriber, reg |-> reg]}]

\* the closure returned by subscribe:
\* this.subscribers = this.subscribers.filter((fn) => fn !== subscriber)
unsubscribe(store, handle) ==
    [store EXCEPT
        !.subscribers = SelectSeq(@, LAMBDA entry : entry.fn # handle.fn)]

\* this.subscribers.forEach((subscriber) => subscriber(value)): forEach
\* walks the array it was called on up to the length it had at the call;
\* push only appends to it and filter builds another array
RECURSIVE forEach(_, _, _, _)
forEach(array, i, value, store) ==
    IF i > Len(array) THEN store
    ELSE LET fn == array[i].fn
             called == [store EXCEPT !.calls =
                          Append(@, [fn |-> fn, reg |-> array[i].reg,
                                     value |-> value])]
         IN  CASE fn = "thrower" -> [called EXCEPT !.threw = TRUE]
               [] fn = "resub" ->
                    forEach(array, i + 1, value, subscribe(called, "g"))
               [] fn = "quitter" ->
                    forEach(array, i + 1, value,
                            unsubscribe(called, [fn |-> "quitter", reg |-> array[i].reg]))
               [] OTHER -> forEach(array, i + 1, value, called)

\* write(value): setItemOk is whether localStorage.setItem returns (it throws
\* when the quota is exceeded or the storage is unavailable)
write(store, value, setItemOk) ==
    IF ~ setItemOk THEN [store EXCEPT !.calls = <<>>, !.threw = TRUE]
    ELSE forEach(store.subscribers, 1, value,
                 [store EXCEPT !.storage = stringify(value),
                               !.calls = <<>>, !.threw = FALSE])

(***************************************************************************)
(* Inputs of the store: what the slot may hold when the page loads, the    *)
(* defaults a store may be built with, and the values clients write.       *)
(***************************************************************************)
\* the default of the application's store (the constructor of
\* InfiniteLibraryApp)
appDefault == [modelSlug |-> "openrouter/auto", apiKey |-> ""]

Defaults == { appDefault,
              [modelSlug |-> "openrouter/auto", apiKey |-> "", theme |-> "dark"] }

JsonArrays ==
    UNION { [1..n -> {"x"}] : n \in 0..MaxArrayLen }

InitialSlots ==
    { Slot("missing", EmptyObject, <<>>),
      Slot("empty", EmptyObject, <<>>),
      Slot("garbage", EmptyObject, <<>>),
      Slot("literal", EmptyObject, <<>>),
      Slot("string", EmptyObject, <<>>),
      Slot("string", EmptyObject, <<"a", "b">>),
      Slot("object", EmptyObject, <<>>),
      Slot("object", [modelSlug |-> "old/model"], <<>>),
      Slot("object", [apiKey |-> "k0", legacy |-> "1"], <<>>) }
    \cup { Slot("array", EmptyObject, a) : a \in JsonArrays }

WriteValues ==
    { [modelSlug |-> "m", apiKey |-> "k"],
      [modelSlug |-> "m", apiKey |-> "k", theme |-> "light"],
      [apiKey |-> "k2", extra |-> JsNull],
      [modelSlug |-> "m", apiKey |-> "k", theme |-> JsUndefined],
      [modelSlug |-> "m", apiKey |-> "k", ratio |-> JsNaN] }

\* what the user may type into a field of the settings form
FieldValues == {"", "a", "b"}

\* the values JSON text can carry
JsonSafe(value) == \A k \in DOMAIN value : value[k] \notin {JsUndefined, JsNaN}

(***************************************************************************)
(* The record of the most recent store call.                               *)
(*   op       "none", "read", "write", "subscribe", "unsubscribe", "edit"  *)
(*   ok       whether the localStorage call of a read or write returned    *)
(*   value    the argument of a write                                      *)
(*   result   what a read returned                                         *)
(*   slot     the slot as the call found it                                *)
(*   before   the subscribers array as the call found it                   *)
(*   calls    the callback invocations a write made, in order              *)
(*   threw    whether a write threw                                        *)
(*   handle   the handle an unsubscribe call invoked                       *)
(*   stored   whether some write's setItem has returned so far,            *)
(*   written  the value of the latest such write, and                      *)
(*   replaced the slot as that write found it                              *)
(***************************************************************************)
NoHandle == [fn |-> "", reg |-> 0]

NoCall ==
    [op |-> "none", ok |-> TRUE, value |-> EmptyObject, result |-> EmptyObject,
     slot |-> Slot("missing", EmptyObject, <<>>), before |-> <<>>,
     calls |-> <<>>, threw |-> FALSE, handle |-> NoHandle,
     stored |-> FALSE, written |-> EmptyObject,
     replaced |-> Slot("missing", EmptyObject, <<>>)]

TheStore ==
    [storage |-> storage, subscribers |-> subscribers, handles |-> handles,
     calls |-> <<>>, threw |-> FALSE]

setStore(store) ==
    /\ storage' = store.storage
    /\ subscribers' = store.subscribers
    /\ handles' = store.handles

\* registrations a write can add: one for each "resub" it invokes
resubCount(array) ==
    Cardinality({ i \in 1..Len(array) : array[i].fn = "resub" })

(***************************************************************************)
(* Actions of the archive view.                                            *)
(***************************************************************************)
\* the "input" listener of the search box
SearchInput(term) ==
    /\ setApp(refreshArchiveList([App EXCEPT !.state.searchTerm = term]))
    /\ UNCHANGED <<loaded, storeVars, defaultValue>>

\* the "change" listener of the faction select
FactionChange(faction) ==
    /\ faction \in factionOptions
    /\ setApp(refreshArchiveList([App EXCEPT !.state.factionFilter = faction]))
    /\ UNCHANGED <<loaded, storeVars, defaultValue>>

\* the "change" listener of the canon toggle
CanonToggle(checked) ==
    /\ setApp(refreshArchiveList([App EXCEPT !.state.showCanonOnly = checked]))
    /\ UNCHANGED <<loaded, storeVars, defaultValue>>

\* the "click" listener of the i-th card of the list
CardClick(i) ==
    /\ i \in 1..Len(archiveList)
    /\ setApp(refreshDocumentView(refreshArchiveList(
            [App EXCEPT !.state.activeDocumentId = archiveList[i].id])))
    /\ UNCHANGED <<loaded, storeVars, defaultValue>>

(***************************************************************************)
(* Actions of the store under arbitrary clients.                           *)
(***************************************************************************)
Read(getItemOk) ==
    /\ lastCall' = [NoCall EXCEPT
            !.op = "read", !.ok = getItemOk, !.slot = storage,
            !.result = read(storage, defaultValue, getItemOk),
            !.stored = lastCall.stored, !.written = lastCall.written,
            !.replaced = lastCall.replaced]
    /\ UNCHANGED <<viewVars, storage, subscribers, handles, settings, defaultValue>>

Write(value, setItemOk) ==
    /\ Cardinality(handles) + resubCount(subscribers) <= MaxSubs
    /\ LET store == write(TheStore, value, setItemOk)
       IN  /\ setStore(store)
           /\ lastCall' = [NoCall EXCEPT
                !.op = "write", !.ok = setItemOk, !.value = value,
                !.slot = storage, !.before = subscribers,
                !.calls = store.calls, !.threw = store.threw,
                !.stored = lastCall.stored \/ setItemOk,
                !.written = IF setItemOk THEN value ELSE lastCall.written,
                !.replaced = IF setItemOk THEN storage ELSE lastCall.replaced]
    /\ UNCHANGED <<viewVars, settings, defaultValue>>

Subscribe(subscriber) ==
    /\ Cardinality(handles) < MaxSubs
    /\ setStore(subscribe(TheStore, subscriber))
    /\ lastCall' = [NoCall EXCEPT
            !.op = "subscribe", !.before = subscribers,
            !.stored = lastCall.stored, !.written = lastCall.written,
            !.replaced = lastCall.replaced]
    /\ UNCHANGED <<viewVars, settings, defaultValue>>

Unsubscribe(handle) ==
    /\ handle \in handles
    /\ setStore(unsubscribe(TheStore, handle))
    /\ lastCall' = [NoCall EXCEPT
            !.op = "unsubscribe", !.before = subscribers, !.handle = handle,
            !.stored = lastCall.stored, !.written = lastCall.written,
            !.replaced = lastCall.replaced]
    /\ UNCHANGED <<viewVars, settings, defaultValue>>

(***************************************************************************)
(* Actions of the settings form (renderSettingsForm): each listener        *)
(* replaces this.settings and then writes it.                              *)
(***************************************************************************)
formEdit(field, value, setItemOk) ==
    LET edited == merge(settings, [k \in {field} |-> value])
        store == write(TheStore, edited, setItemOk)
    IN  /\ settings' = edited
        /\ setStore(store)
        /\ lastCall' = [NoCall EXCEPT
                !.op = "edit", !.ok = setItemOk, !.value = edited,
                !.slot = storage, !.before = subscribers,
                !.calls = store.calls, !.threw = store.threw,
                !.stored = lastCall.stored \/ setItemOk,
                !.written = IF setItemOk THEN edited ELSE lastCall.written,
                !.replaced = IF setItemOk THEN storage ELSE lastCall.replaced]
        /\ UNCHANGED <<viewVars, defaultValue>>

SlugEdit(value, setItemOk) == formEdit("modelSlug", value, setItemOk)

KeyEdit(value, setItemOk) == formEdit("apiKey", value, setItemOk)

(***************************************************************************)
(* Specifications.                                                         *)
(***************************************************************************)
\* The store plays no part in what the archive view does: the view
\* specification holds it as the application builds it over an empty slot.
IdleStore ==
    /\ storage = Slot("missing", EmptyObject, <<>>)
    /\ defaultValue = appDefault
    /\ subscribers = <<>>
    /\ handles = {}
    /\ settings = appDefault
    /\ lastCall = NoCall

\* new InfiniteLibraryApp(root) over the collections the module load left
viewOf(documents, agents) ==
    LET app == newApp(documents, agents)
    IN  /\ loaded = [documents |-> documents, agents |-> agents]
        /\ state = app.state
        /\ archiveList = app.archiveList
        /\ detailView = app.detailView

\* The archive view plays no part in what the store does: the store
\* specifications hold it at the view of an empty archive.
IdleView == viewOf(<<>>, <<>>)

Init ==
    /\ \/ viewOf(primeDocuments, primeAgents)
       \/ \E collection \in GeneratedCollections :
               viewOf(collection, generatedAgents)
    /\ IdleStore

Next ==
    \/ \E term \in SearchTerms : SearchInput(term)
    \/ \E faction \in factionOptions : FactionChange(faction)
    \/ \E checked \in BOOLEAN : CanonToggle(checked)
    \/ \E i \in 1..Len(archiveList) : CardClick(i)

Spec == Init /\ [][Next]_vars

StoreInit ==
    /\ IdleView
    /\ storage \in InitialSlots
    /\ defaultValue \in Defaults
    /\ subscribers = <<>>
    /\ handles = {}
    /\ settings = appDefault
    /\ lastCall = NoCall

StoreNext ==
    \/ \E getItemOk \in BOOLEAN : Read(getItemOk)
    \/ \E value \in WriteValues, setItemOk \in BOOLEAN : Write(value, setItemOk)

StoreSpec == StoreInit /\ [][StoreNext]_vars

SubscriberInit ==
    /\ IdleView
    /\ IdleStore

SubscriberNext ==
    \/ \E value \in WriteValues, setItemOk \in BOOLEAN : Write(value, setItemOk)
    \/ \E subscriber \in Callbacks : Subscribe(subscriber)
    \/ \E handle \in handles : Unsubscribe(handle)

SubscriberSpec == SubscriberInit /\ [][SubscriberNext]_vars

\* new InfiniteLibraryApp(root): the store is built with appDefault and
\* this.settings is what read() returns
FormInit ==
    /\ IdleView
    /\ storage \in InitialSlots
    /\ defaultValue = appDefault
    /\ subscribers = <<>>
    /\ handles = {}
    /\ \E getItemOk \in BOOLEAN :
            settings = read(storage, defaultValue, getItemOk)
    /\ lastCall = NoCall

FormNext ==
    \/ \E value \in FieldValues, setItemOk \in BOOLEAN : SlugEdit(value, setItemOk)
    \/ \E value \in FieldValues, setItemOk \in BOOLEAN : KeyEdit(value, setItemOk)

FormSpec == FormInit /\ [][FormNext]_vars

(***************************************************************************)
(* Properties.                                                             *)
(***************************************************************************)
\* archiveList holds what filteredDocuments returned at the latest refresh,
\* and every handler ends with a refresh: it is the visible set of state.
visibleIds == [j \in 1..Len(archiveList) |-> archiveList[j].id]

positionOf(doc) ==
    CHOOSE i \in 1..Len(state.documents) : state.documents[i] = doc

\* the three conditions of the filter, stated one by one
needle == toLowerCase(trim(chars(state.searchTerm)))

resolvedAuthorName(doc) ==
    IF \E i \in 1..Len(state.agents) : state.agents[i].id = doc.authorId
    THEN LET first == CHOOSE i \in 1..Len(state.agents) :
                        /\ state.agents[i].id = doc.authorId
                        /\ \A j \in 1..(i - 1) : state.agents[j].id # doc.authorId
         IN  chars(state.agents[first].name)
    ELSE <<>>

haystackOf(doc) ==
    toLowerCase(chars(doc.title) \o <<" ">> \o chars(doc.text) \o <<" ">>
                    \o resolvedAuthorName(doc))

isSubstring(short, long) ==
    \E start \in 1..(Len(long) - Len(short) + 1) :
        SubSeq(long, start, start + Len(short) - 1) = short

passesFaction(doc) ==
    state.factionFilter = "all" \/ doc.factionTag = state.factionFilter

passesCanon(doc) == ~ state.showCanonOnly \/ doc.canonWeight >= 70

passesSearch(doc) == needle = <<>> \/ isSubstring(needle, haystackOf(doc))

passesAll(doc) == passesFaction(doc) /\ passesCanon(doc) /\ passesSearch(doc)

\* C1: the visible set holds exactly the documents that pass the faction
\* condition, the canon condition and the search condition: every visible
\* document is a document of the collection that passes all three, every
\* passing document is visible, and none is listed twice.
C1_VisibleExactlyPassing ==
    /\ \A j \in 1..Len(archiveList) :
          /\ \E i \in 1..Len(state.documents) : state.documents[i] = archiveList[j]
          /\ passesAll(archiveList[j])
    /\ \A i \in 1..Len(state.documents) :
          passesAll(state.documents[i])
            => \E j \in 1..Len(archiveList) : archiveList[j] = state.documents[i]
    /\ Len(archiveList) =
          Cardinality({ i \in 1..Len(state.documents) : passesAll(state.documents[i]) })

\* a refresh under all three filters at once that kept a document whose
\* weight is exactly the threshold and dropped another
C1_Witness ==
    /\ state.factionFilter # "all"
    /\ state.showCanonOnly
    /\ needle # <<>>
    /\ Len(archiveList) >= 1
    /\ Len(archiveList) < Len(state.documents)
    /\ \E j \in 1..Len(archiveList) : archiveList[j].canonWeight = 70

\* C2: after every refresh activeDocumentId is null or the id of a visible
\* document (the first visible one when the old id dropped out, null when
\* nothing is visible).
C2_ActiveIsNullOrVisible ==
    \/ state.activeDocumentId = NoDocument
    \/ \E j \in 1..Len(archiveList) : archiveList[j].id = state.activeDocumentId

\* C3: the visible sequence is ordered by timestamp, newest first, and
\* documents with equal timestamps keep the order of the input collection.
C3_SortedStable ==
    \A i, j \in 1..Len(archiveList) :
        i < j =>
            /\ archiveList[i].timestamp >= archiveList[j].timestamp
            /\ archiveList[i].timestamp = archiveList[j].timestamp
                 => positionOf(archiveList[i]) < positionOf(archiveList[j])

\* a refresh under the canon filter whose result has a tie and a pair that
\* the sort had to swap
C3_Witness ==
    /\ state.showCanonOnly
    /\ \E i, j \in 1..Len(archiveList) :
          i < j /\ archiveList[i].timestamp = archiveList[j].timestamp
    /\ \E i, j \in 1..Len(archiveList) :
          i < j /\ positionOf(archiveList[i]) > positionOf(archiveList[j])

canonOnlyOverFixtures ==
    /\ state.documents = primeDocuments
    /\ state.agents = primeAgents
    /\ state.showCanonOnly
    /\ state.factionFilter = "all"
    /\ trim(chars(state.searchTerm)) = <<>>

\* C4 as stated: over the fixtures with only the canon toggle on, the
\* visible set is d_origin_sky then d_aurora_accord.
C4_AsStated ==
    canonOnlyOverFixtures => visibleIds = <<"d_origin_sky", "d_aurora_accord">>

\* C4 as amended: over the fixtures with only the canon toggle on, the
\* visible set is d_aurora_accord (61 days old) then d_origin_sky (92 days
\* old), which is the order by timestamp descending.
C4_CanonOnlyNewestFirst ==
    canonOnlyOverFixtures => visibleIds = <<"d_aurora_accord", "d_origin_sky">>

C4_Witness ==
    /\ canonOnlyOverFixtures
    /\ Len(archiveList) = 2
    /\ state.searchTerm # ""

readAfterStore ==
    /\ lastCall.op = "read"
    /\ lastCall.ok
    /\ lastCall.stored

mergedOverDefault(result, value) ==
    /\ DOMAIN result = DOMAIN value \cup DOMAIN defaultValue
    /\ \A k \in DOMAIN value : result[k] = value[k]
    /\ \A k \in DOMAIN defaultValue \ DOMAIN value : result[k] = defaultValue[k]

\* C5 as stated: for every value S, a read that follows the write of S
\* returns S merged over the default, whatever was stored before.
C5_AsStated ==
    readAfterStore => mergedOverDefault(lastCall.result, lastCall.written)

\* C5 as amended: for every value S whose members JSON text can carry (none
\* is undefined or NaN), a read that follows the write of S returns S merged
\* over the default: each key of S with S's value, each key of the default
\* alone with the default's value, and no other key, so nothing of an
\* earlier write survives.
C5_RoundTripOfJsonValues ==
    (readAfterStore /\ JsonSafe(lastCall.written))
        => mergedOverDefault(lastCall.result, lastCall.written)

\* a read after a write that replaced an object: the object had a key that
\* neither the written value nor the default has, the default has a key the
\* written value lacks, and the written value overrides a key of the default
C5_Witness ==
    /\ readAfterStore
    /\ JsonSafe(lastCall.written)
    /\ lastCall.replaced.kind = "object"
    /\ \E k \in DOMAIN lastCall.replaced.members :
          k \notin DOMAIN lastCall.written \cup DOMAIN defaultValue
    /\ \E k \in DOMAIN defaultValue : k \notin DOMAIN lastCall.written
    /\ \E k \in DOMAIN defaultValue \cap DOMAIN lastCall.written :
          lastCall.written[k] # defaultValue[k]

\* C6: a read that finds the slot missing, the storage throwing, or text
\* that is not the JSON of a key-value object returns the default itself.
C6_InvalidContentGivesDefault ==
    (/\ lastCall.op = "read"
     /\ \/ ~ lastCall.ok
        \/ lastCall.slot.kind # "object")
        => lastCall.result = defaultValue

\* C7: a write invokes every callback registered when it was called, once
\* each, with the written value, in registration order, whether or not the
\* storage update succeeded and whatever the earlier callbacks did.
C7_WriteNotifiesAllInOrder ==
    lastCall.op = "write"
        => lastCall.calls =
              [i \in 1..Len(lastCall.before) |->
                  [fn |-> lastCall.before[i].fn, reg |-> lastCall.before[i].reg,
                   value |-> lastCall.value]]

\* C8: invoking the handle of one registration removes that registration
\* and no other, keeps the others in order, and changes nothing when the
\* registration is already gone.
C8_HandleRemovesOwnRegistrationOnly ==
    lastCall.op = "unsubscribe"
        => subscribers =
              SelectSeq(lastCall.before,
                        LAMBDA entry : entry.reg # lastCall.handle.reg)

\* C9: computing the visible set leaves its inputs as they were: the
\* collections are those the load left, a further call on the view state
\* returns that view state unchanged, and it returns the same sequence.
C9_InputsUntouched ==
    /\ state.documents = loaded.documents
    /\ state.agents = loaded.agents
    /\ filteredDocuments(state).state = state
    /\ filteredDocuments(state).result = archiveList

\* a refresh that dropped a document and reordered the ones it kept
C9_Witness ==
    /\ Len(archiveList) >= 2
    /\ Len(archiveList) < Len(state.documents)
    /\ \E i, j \in 1..Len(archiveList) :
          i < j /\ positionOf(archiveList[i]) > positionOf(archiveList[j])
    /\ state.searchTerm # ""

\* C10: after an edit of the settings form the settings in memory are what
\* read() returns from the storage.
C10_MemoryEqualsStorage ==
    lastCall.op = "edit" => settings = read(storage, defaultValue, TRUE)

=============================================================================
